---- MODULE Spec2Model ----
(***************************************************************************)
(* Vehicle Management API (src/main.py): a FastAPI service with five       *)
(* vehicle handlers over one PostgreSQL table `vehicles` and one sequence  *)
(* `vehicle_id_seq`.  Every handler runs inside get_db_connection(): one   *)
(* connection, one transaction, commit on normal exit, rollback on any     *)
(* exception, close always.  Requests run concurrently; a request's steps  *)
(* (connect, each statement, commit) interleave with other requests'.      *)
(***************************************************************************)
EXTENDS Integers, Sequences, FiniteSets, TLC

VARIABLES
    vehicles,        \* committed rows of table vehicles: row key -> row
    vehicle_id_seq,  \* last value handed out by sequence vehicle_id_seq
    sha,             \* the digests computed so far: integer -> digest seed
    req,             \* the requests in flight: slot -> request record
    issued,          \* history: every value nextval has returned, in order
    created,         \* history: identifier -> the create response still standing
    deletedVins,     \* history: identifiers deleted (204) and not created since
    calls            \* history: the direct calls of generate_vin, [n, vin], in order

vars == <<vehicles, vehicle_id_seq, sha, req, issued, created, deletedVins, calls>>

----------------------------------------------------------------------------
(* Bounds of the model.                                                    *)

\* Number of values the sequence may hand out in one run.
MaxSeq == 2
\* Number of requests that may be in flight at the same time.
MaxReq == 2

Slots == 1..MaxReq

\* Number of direct calls of generate_vin recorded in one run.
MaxCalls == 2

----------------------------------------------------------------------------
(* Characters and identifiers.  A string that the code indexes or compares *)
(* character by character is a sequence of one-character strings.          *)

UpperLetters ==
    <<"A","B","C","D","E","F","G","H","I","J","K","L","M",
      "N","O","P","Q","R","S","T","U","V","W","X","Y","Z">>

LowerLetters ==
    <<"a","b","c","d","e","f","g","h","i","j","k","l","m",
      "n","o","p","q","r","s","t","u","v","w","x","y","z">>

\* Mutant: the alphabet holds the letters in both cases.
charsMixedCase ==
    <<"0","1","2","3","4","5","6","7","8","9",
      "A","B","C","D","E","F","G","H","J","K","L","M",
      "N","P","R","S","T","U","V","W","X","Y","Z",
      "0","1","2","3","4","5","6","7","8","9",
      "a","b","c","d","e","f","g","h","j","k","l","m",
      "n","p","r","s","t","u","v","w","x","y","z">>

\* Mutant: the alphabet keeps I, O and Q.
charsAllLetters ==
    <<"0","1","2","3","4","5","6","7","8","9",
      "A","B","C","D","E","F","G","H","I","J","K","L","M",
      "N","O","P","Q","R","S","T","U","V","W","X","Y","Z">>

\* generate_vin: chars = '0123456789ABCDEFGHJKLMNPRSTUVWXYZ'
chars ==
    <<"0","1","2","3","4","5","6","7","8","9",
      "A","B","C","D","E","F","G","H","J","K","L","M",
      "N","P","R","S","T","U","V","W","X","Y","Z">>

\* generate_vin: range(17)
VinLen == 17

\* hashlib.sha256(...).digest() is 32 bytes long
DigestLen == 32

\* SQL LOWER() on one character.
LowerChar(c) ==
    IF \E i \in DOMAIN UpperLetters : UpperLetters[i] = c
    THEN LowerLetters[CHOOSE i \in DOMAIN UpperLetters : UpperLetters[i] = c]
    ELSE c

\* SQL LOWER() on a string.
LOWER(s) == [i \in DOMAIN s |-> LowerChar(s[i])]

\* str.upper() on one character and on a string (the tests' vin.upper()).
UpperChar(c) ==
    IF \E i \in DOMAIN LowerLetters : LowerLetters[i] = c
    THEN UpperLetters[CHOOSE i \in DOMAIN LowerLetters : LowerLetters[i] = c]
    ELSE c

UPPER(s) == [i \in DOMAIN s |-> UpperChar(s[i])]

(* hashlib.sha256(str(vehicle_id).encode()).digest(): SHA-256 is not       *)
(* computed here.  A digest is named by a seed; the digest of an integer   *)
(* is fixed the first time it is computed (variable sha) and is any of     *)
(* the digests of Seeds.  Seeds 5 and 38 give digests that differ in every *)
(* byte by len(chars), so that two integers can derive one identifier.     *)
(* Digests are named up to renaming: the first integer hashed has seed 5,  *)
(* a later one collides with it (38) or does not (120).                    *)
Seeds == {5, 38, 120}

SeedsFor(vehicle_id) == IF vehicle_id = 1 THEN {5} ELSE {38, 120}

DigestOf(seed) == [i \in 1..DigestLen |-> (seed + 3 * (i - 1)) % 256]

\* Every value of a byte.
Bytes == 0..255

\* Mutant: the digest is salted with a counter of the process.
hash_bytes_salted(vehicle_id) == DigestOf((sha[vehicle_id] + vehicle_id_seq) % 256)

\* hash_bytes, for an integer whose digest is known
hash_bytes(vehicle_id) == DigestOf(sha[vehicle_id])

\* Mutant: range(1, 18), the bytes after the first.
VinOfDigestShifted(bytes) ==
    [i \in 1..VinLen |-> chars[(bytes[i + 1] % Len(chars)) + 1]]

\* ''.join(chars[hash_bytes[i] % len(chars)] for i in range(17))
VinOfDigest(bytes) == [i \in 1..VinLen |-> chars[(bytes[i] % Len(chars)) + 1]]

generate_vin(vehicle_id) == VinOfDigest(hash_bytes(vehicle_id))

\* Every identifier the generator can derive in this model.
PossibleVins == {VinOfDigest(DigestOf(s)) : s \in Seeds}

\* The tests' identifier that was never issued.
NONEXISTENT == <<"N","O","N","E","X","I","S","T","E","N","T","1","2","3","4","5">>

\* Path identifiers a client sends.
PathIds ==
    { VinOfDigest(DigestOf(5)), LOWER(VinOfDigest(DigestOf(5))), NONEXISTENT }

----------------------------------------------------------------------------
(* Request bodies and the Input Schema (class VehicleCreate).  A JSON      *)
(* value is [t, s, n]: its JSON type, its text when a string, its value    *)
(* when a number.  A body is [json, obj]: whether the bytes parse as JSON, *)
(* and the decoded object, a function from the keys present to values.     *)

Str(s) == [t |-> "str", s |-> s, n |-> 0]
Num(n) == [t |-> "int", s |-> "", n |-> n]
Null == [t |-> "null", s |-> "", n |-> 0]

Twice(s) == s \o s

\* 64 characters: longer than max_length=50.
Text64 == Twice(Twice(Twice(Twice(Twice("ab")))))

\* The fields of VehicleCreate in declaration order; max = -1: no bound.
Fields ==
    << [name |-> "manufacturer_name", type |-> "str",   required |-> TRUE,  min |-> 1, max |-> 255],
       [name |-> "description",       type |-> "str",   required |-> FALSE, min |-> 0, max |-> -1],
       [name |-> "horse_power",       type |-> "int",   required |-> TRUE,  min |-> 0, max |-> -1],
       [name |-> "model_name",        type |-> "str",   required |-> TRUE,  min |-> 1, max |-> 255],
       [name |-> "model_year",        type |-> "int",   required |-> TRUE,  min |-> 0, max |-> -1],
       [name |-> "purchase_price",    type |-> "float", required |-> TRUE,  min |-> 0, max |-> -1],
       [name |-> "fuel_type",         type |-> "str",   required |-> TRUE,  min |-> 0, max |-> 50] >>

\* The violation pydantic reports for one field of a decoded object, "" if none.
FieldError(f, obj) ==
    IF f.name \notin DOMAIN obj
    THEN (IF f.required THEN "missing" ELSE "")
    ELSE LET v == obj[f.name] IN
         CASE f.type = "str" ->
                 IF v.t = "null" /\ ~f.required THEN ""
                 ELSE IF v.t # "str" THEN "string_type"
                 ELSE IF Len(v.s) < f.min THEN "string_too_short"
                 ELSE IF f.max >= 0 /\ Len(v.s) > f.max THEN "string_too_long"
                 ELSE ""
           [] f.type = "int" ->
                 IF v.t = "int" THEN ""
                 ELSE IF v.t = "str" THEN "int_parsing"
                 ELSE "int_type"
           [] f.type = "float" ->
                 IF v.t = "int" THEN ""
                 ELSE IF v.t = "str" THEN "float_parsing"
                 ELSE "float_type"

IsViolation(e) == e.type # ""

\* exc.errors() of the RequestValidationError FastAPI raises for a body,
\* << >> when the body is accepted.
RequestErrors(body) ==
    IF ~body.json
    THEN << [type |-> "json_invalid", loc |-> "body"] >>
    ELSE SelectSeq([i \in DOMAIN Fields |->
                       [type |-> FieldError(Fields[i], body.obj), loc |-> Fields[i].name]],
                   IsViolation)

\* The VehicleCreate instance built from an accepted body.  An optional
\* string is << >> when None and <<s>> when the string s.
Validated(body) ==
    LET obj == body.obj IN
    [ manufacturer_name |-> obj["manufacturer_name"].s,
      description |-> IF "description" \in DOMAIN obj /\ obj["description"].t = "str"
                      THEN << obj["description"].s >> ELSE << >>,
      horse_power |-> obj["horse_power"].n,
      model_name |-> obj["model_name"].s,
      model_year |-> obj["model_year"].n,
      purchase_price |-> obj["purchase_price"].n,
      fuel_type |-> obj["fuel_type"].s ]

\* Mutant: no distinction, every validation error is answered 422.
validation_exception_handler_422(errors) ==
    [status |-> 422,
     detail |-> "Validation error - invalid or missing fields",
     errors |-> errors]

\* Mutant: only the first error is returned.
validation_exception_handler_first(errors) ==
    IF \E i \in DOMAIN errors : errors[i].type \in {"json_invalid", "json_type"}
    THEN [status |-> 400,
          detail |-> "Invalid JSON format - cannot parse request body",
          errors |-> SubSeq(errors, 1, 1)]
    ELSE [status |-> 422,
          detail |-> "Validation error - invalid or missing fields",
          errors |-> SubSeq(errors, 1, 1)]

\* validation_exception_handler: 400 when some error is a JSON parsing
\* error, 422 otherwise; the errors are returned whole.
validation_exception_handler(errors) ==
    IF \E i \in DOMAIN errors : errors[i].type \in {"json_invalid", "json_type"}
    THEN [status |-> 400,
          detail |-> "Invalid JSON format - cannot parse request body",
          errors |-> errors]
    ELSE [status |-> 422,
          detail |-> "Validation error - invalid or missing fields",
          errors |-> errors]

\* The tests' bodies.
Honda ==
    [json |-> TRUE,
     obj |-> [manufacturer_name |-> Str("Honda"), horse_power |-> Num(192),
              model_name |-> Str("Accord"), model_year |-> Num(2021),
              purchase_price |-> Num(25000), fuel_type |-> Str("Gasoline")]]

Toyota ==
    [json |-> TRUE,
     obj |-> [manufacturer_name |-> Str("Toyota"), description |-> Str("Blue sedan"),
              horse_power |-> Num(200), model_name |-> Str("Camry"),
              model_year |-> Num(2022), purchase_price |-> Num(30000),
              fuel_type |-> Str("Hybrid")]]

\* horse_power of the wrong type
BadHorsePower ==
    [json |-> TRUE,
     obj |-> [manufacturer_name |-> Str("Toyota"), horse_power |-> Str("not_a_number"),
              model_name |-> Str("Camry"), model_year |-> Num(2022),
              purchase_price |-> Num(30000), fuel_type |-> Str("Hybrid")]]

\* manufacturer_name missing, model_name empty, fuel_type too long
ManyViolations ==
    [json |-> TRUE,
     obj |-> [description |-> Null, horse_power |-> Num(192), model_name |-> Str(""),
              model_year |-> Num(2021), purchase_price |-> Num(25000),
              fuel_type |-> Str(Text64)]]

\* '{"manufacturer_name": "Honda"' : the closing brace is missing
Truncated == [json |-> FALSE, obj |-> << >>]

NoBody == [json |-> TRUE, obj |-> << >>]

\* The bodies clients send: creates carry Honda, updates carry Toyota, both
\* carry each of the rejected bodies.
Rejected == {BadHorsePower, ManyViolations, Truncated}

----------------------------------------------------------------------------
(* Rows, responses and the state of one request.                           *)

(* A row is the tuple of its eight columns in the order the statements    *)
(* name them: vin, manufacturer_name, description, horse_power,            *)
(* model_name, model_year, purchase_price, fuel_type.  The code reads a    *)
(* row by position, row[0] .. row[7]; positions here start at 1.           *)

\* Mutant: manufacturer_name and model_name passed in each other's place.
InsertedRowSwapped(vin, vehicle) ==
    << vin, vehicle.model_name, vehicle.description, vehicle.horse_power,
       vehicle.manufacturer_name, vehicle.model_year, vehicle.purchase_price,
       vehicle.fuel_type >>

\* The parameters of the INSERT: the identifier and the payload's fields.
InsertedRow(vin, vehicle) ==
    << vin, vehicle.manufacturer_name, vehicle.description, vehicle.horse_power,
       vehicle.model_name, vehicle.model_year, vehicle.purchase_price,
       vehicle.fuel_type >>

\* Mutant: the SET clause also assigns vin, from the path parameter.
UpdatedRowSetsVin(old, vehicle, vin) ==
    << vin, vehicle.manufacturer_name, vehicle.description, vehicle.horse_power,
       vehicle.model_name, vehicle.model_year, vehicle.purchase_price,
       vehicle.fuel_type >>

\* Mutant: SET horse_power = horse_power + %s, an update relative to the
\* stored value.
UpdatedRowAccumulates(old, vehicle, vin) ==
    << old[1], vehicle.manufacturer_name, vehicle.description,
       old[4] + vehicle.horse_power, vehicle.model_name, vehicle.model_year,
       vehicle.purchase_price, vehicle.fuel_type >>

\* The UPDATE's SET clause: seven columns from the payload, vin as stored.
\* vin is the path parameter, used by the WHERE clause only.
UpdatedRow(old, vehicle, vin) ==
    << old[1], vehicle.manufacturer_name, vehicle.description, vehicle.horse_power,
       vehicle.model_name, vehicle.model_year, vehicle.purchase_price,
       vehicle.fuel_type >>

\* The vin column of a row.
VinOf(row) == row[1]

\* float(row[6]): the numeric column read back as a float.  Prices of the
\* model are whole numbers, which numeric and float both hold exactly.
float(x) == x

\* class VehicleResponse
VehicleResponse(vin, manufacturer_name, description, horse_power, model_name, model_year, purchase_price, fuel_type) ==
    [ vin |-> vin,
      manufacturer_name |-> manufacturer_name,
      description |-> description,
      horse_power |-> horse_power,
      model_name |-> model_name,
      model_year |-> model_year,
      purchase_price |-> purchase_price,
      fuel_type |-> fuel_type ]

\* get_vehicle: the dict built from each fetched row
ListItem(v) ==
    VehicleResponse(v[1], v[2], v[3], v[4], v[5], v[6], float(v[7]), v[8])

\* create_vehicle: return VehicleResponse(vin=new_vehicle[0], ...)
CreateResponse(new_vehicle) ==
    VehicleResponse(new_vehicle[1], new_vehicle[2], new_vehicle[3], new_vehicle[4],
                    new_vehicle[5], new_vehicle[6], float(new_vehicle[7]),
                    new_vehicle[8])

\* Mutant: the columns of the two names read from each other's position.
GetResponseSwapped(vehicle) ==
    VehicleResponse(vehicle[1], vehicle[5], vehicle[3], vehicle[4], vehicle[2],
                    vehicle[6], float(vehicle[7]), vehicle[8])

\* get_vehicle_by_vin: return VehicleResponse(vin=vehicle[0], ...)
GetResponse(vehicle) ==
    VehicleResponse(vehicle[1], vehicle[2], vehicle[3], vehicle[4], vehicle[5],
                    vehicle[6], float(vehicle[7]), vehicle[8])

\* update_vehicle: return VehicleResponse(vin=updated_vehicle[0], ...)
UpdateResponse(updated_vehicle) ==
    VehicleResponse(updated_vehicle[1], updated_vehicle[2], updated_vehicle[3],
                    updated_vehicle[4], updated_vehicle[5], updated_vehicle[6],
                    float(updated_vehicle[7]), updated_vehicle[8])

Ops == {"list", "create", "get", "update", "delete"}

\* The detail of the HTTPException(500) each handler raises in its except clause.
FailDetail(op) ==
    CASE op = "list" -> "Failed to retrieve vehicles from database"
      [] op = "create" -> "Failed to create new vehicle"
      [] op = "get" -> "Failed to retrieve vehicle"
      [] op = "update" -> "Failed to update vehicle"
      [] op = "delete" -> "Failed to delete vehicle"

\* The status a handler's decorator gives its normal return.
SuccessStatus(op) ==
    CASE op = "create" -> 201
      [] op = "delete" -> 204
      [] OTHER -> 200

\* No write pending in a transaction.
NoWrite == [kind |-> "none", rows |-> << >>]

\* No change of the table.
NoDelta == [added |-> << >>, removed |-> {}, changed |-> << >>]

(* A request slot.  pc: idle, handler (body accepted, handler entered),    *)
(* conn (connection open), seq (create: sequence value fetched), exec      *)
(* (statement done, return value built, commit pending), done (response    *)
(* produced).  conn: none, open, closed.  write: the transaction's         *)
(* uncommitted write.  content: the response body, a set of records.       *)
(* exc: the exception that ended the with block, "" if none.  rollback:    *)
(* none (conn.rollback() not called), done (it returned), failed (it       *)
(* raised).                                                                *)
(* Ghost fields: opened (connections opened), allocs (sequence values      *)
(* obtained), hit (keys of the rows equal to the path identifier ignoring  *)
(* case when the statement ran), fetched (keys the statement returned),    *)
(* delta (what the commit changed in the table), snapCreated and           *)
(* snapDeleted (history read off when the request or its statement began). *)
Idle ==
    [ pc |-> "idle", op |-> "none", vin |-> << >>, body |-> NoBody,
      conn |-> "none", opened |-> 0, vehicle_id |-> 0, allocs |-> {},
      write |-> NoWrite, content |-> {}, status |-> 0, detail |-> "",
      errors |-> << >>, exc |-> "", rollback |-> "none", hit |-> {}, fetched |-> {},
      delta |-> NoDelta, snapCreated |-> {}, snapDeleted |-> {} ]

Init ==
    /\ vehicles = << >>
    /\ vehicle_id_seq = 0
    /\ sha = << >>
    /\ req = [r \in Slots |-> Idle]
    /\ issued = << >>
    /\ created = [v \in PossibleVins |-> {}]
    /\ deletedVins = {}
    /\ calls = << >>

\* Mutant: the statement has no WHERE clause.
WhereEvery(table, vin) == DOMAIN table

\* Mutant: WHERE vin = %s, a comparison that sees letter case.
WhereExact(table, vin) == {k \in DOMAIN table : table[k][1] = vin}

\* The keys of the rows of a table whose vin satisfies WHERE LOWER(vin) = LOWER(%s).
WhereLower(table, vin) == {k \in DOMAIN table : LOWER(VinOf(table[k])) = LOWER(vin)}

\* Equality of two strings ignoring letter case, as the specification words it.
EqIgnoreCase(a, b) == UPPER(a) = UPPER(b)

\* Mutant: a delete is never made durable.
ApplyWriteKeepsDeleted(table, w) ==
    IF w.kind \in {"insert", "update"}
    THEN [k \in DOMAIN table \cup DOMAIN w.rows |->
             IF k \in DOMAIN w.rows THEN w.rows[k] ELSE table[k]]
    ELSE table

\* The rows of a table after a transaction's write is committed.
ApplyWrite(table, w) ==
    CASE w.kind \in {"insert", "update"} ->
            [k \in DOMAIN table \cup DOMAIN w.rows |->
                IF k \in DOMAIN w.rows THEN w.rows[k] ELSE table[k]]
      [] w.kind = "delete" ->
            [k \in DOMAIN table \ DOMAIN w.rows |-> table[k]]
      [] OTHER -> table

\* Mutant: the except clause commits what the transaction wrote.
RollbackCommits(table, w) == ApplyWrite(table, w)

\* conn.rollback(): the table after a transaction's write is discarded.  A
\* transaction whose rollback raises is discarded by the server when the
\* connection is closed.
Rollback(table, w) == table

\* What a commit changed: the rows added, the keys removed, the rows that
\* differ from what they were.
Diff(old, new) ==
    [ added |-> [k \in DOMAIN new \ DOMAIN old |-> new[k]],
      removed |-> DOMAIN old \ DOMAIN new,
      changed |-> [k \in {j \in DOMAIN old \cap DOMAIN new : old[j] # new[j]} |-> new[k]] ]

\* Another open transaction holds an uncommitted write on one of these rows.
RowLocked(r, keys) ==
    \E q \in Slots \ {r} :
        req[q].write.kind # "none" /\ DOMAIN req[q].write.rows \cap keys # {}

\* Another open transaction's uncommitted write decides whether this vin is
\* taken: an insert of the same vin, or a delete of the row that holds it.
VinContended(r, vin) ==
    \E q \in Slots \ {r} :
        /\ req[q].write.kind \in {"insert", "delete"}
        /\ \E k \in DOMAIN req[q].write.rows : VinOf(req[q].write.rows[k]) = vin

\* Mutant: the table has no unique constraint on vin.
NoUniqueConstraint(table, vin) == FALSE

\* The unique constraint on vehicles.vin: a committed row holds this vin.
UniqueViolation(table, vin) == \E k \in DOMAIN table : VinOf(table[k]) = vin

----------------------------------------------------------------------------
(* The operations.                                                         *)

\* The create response still standing for the identifier a path names.
Standing(vin) == IF UPPER(vin) \in DOMAIN created THEN created[UPPER(vin)] ELSE {}

\* Mutant: the body is validated inside the handler, after the connection
\* is opened.
DispatchInHandler(s, errors) ==
    IF errors # << >>
    THEN LET h == validation_exception_handler(errors) IN
         [s EXCEPT !.pc = "done", !.status = h.status, !.detail = h.detail,
                   !.errors = h.errors, !.opened = 1, !.conn = "closed"]
    ELSE [s EXCEPT !.pc = "handler"]

\* FastAPI decodes and validates the body before it calls the handler: a
\* body with errors is answered by validation_exception_handler and the
\* handler never runs.
Dispatch(s, errors) ==
    IF errors # << >>
    THEN LET h == validation_exception_handler(errors) IN
         [s EXCEPT !.pc = "done", !.status = h.status, !.detail = h.detail,
                   !.errors = h.errors]
    ELSE [s EXCEPT !.pc = "handler"]

\* The errors of the request's body; only POST and PUT declare a body.
BodyErrors(op, body) ==
    IF op \in {"create", "update"} THEN RequestErrors(body) ELSE << >>

(* Which requests a slot serves.  A request that only reads, and one that  *)
(* is rejected before its handler runs, changes nothing another request    *)
(* can see; a run is therefore decided by its writing requests and one     *)
(* further request.  Slot 1 serves every request, the other slots serve    *)
(* the requests that write.                                                *)
Serves(r, op, body) ==
    r = 1 \/ (op \in {"create", "update", "delete"} /\ BodyErrors(op, body) = << >>)

\* A request arrives.
Receive(r, op, vin, body) ==
    /\ req[r].pc = "idle"
    /\ Serves(r, op, body)
    /\ LET errors == BodyErrors(op, body)
           s == [Idle EXCEPT !.op = op, !.vin = vin, !.body = body,
                             !.snapCreated = IF op = "get" THEN Standing(vin) ELSE {}]
       IN req' = [req EXCEPT ![r] = Dispatch(s, errors)]
    /\ UNCHANGED <<vehicles, vehicle_id_seq, sha, issued, created, deletedVins, calls>>

\* Mutant: the detail carries str(e), as the health check's detail does.
HandlerExceptLeaks(op, exc) == [status |-> 500, detail |-> exc]

\* Mutant: a violated unique constraint is answered 409, not 500.
HandlerExceptConflict(op, exc) ==
    IF exc = "UniqueViolation"
    THEN [status |-> 409, detail |-> "Vehicle already exists"]
    ELSE [status |-> 500, detail |-> FailDetail(op)]

\* except Exception as e: raise HTTPException(500, detail=...).  The clause
\* catches every exception that leaves the with block, exc names it.
HandlerExcept(op, exc) == [status |-> 500, detail |-> FailDetail(op)]

\* Mutant: the except clause does not re-raise; a commit that failed is
\* swallowed and the handler's return value is answered.
RaiseSwallowsCommitError(s, exc) ==
    LET h == HandlerExcept(s.op, exc) IN
    IF s.pc = "exec"
    THEN [s EXCEPT !.pc = "done", !.write = NoWrite, !.exc = exc,
                   !.conn = "closed", !.status = SuccessStatus(s.op)]
    ELSE [s EXCEPT !.pc = "done", !.write = NoWrite, !.content = {}, !.exc = exc,
                   !.conn = IF s.conn = "open" THEN "closed" ELSE s.conn,
                   !.status = h.status, !.detail = h.detail]

\* Mutant: the connection is closed after the commit only, not in a finally
\* clause.
RaiseLeaksConnection(s, exc) ==
    LET h == HandlerExcept(s.op, exc) IN
    [s EXCEPT !.pc = "done", !.write = NoWrite, !.content = {}, !.exc = exc,
              !.status = h.status, !.detail = h.detail]

\* get_db_connection when the with block ends by an exception: the
\* transaction's write is gone, the connection is closed if one was opened
\* (`if conn: conn.close()`); then the handler's except clause.
Raise(s, exc) ==
    LET h == HandlerExcept(s.op, exc) IN
    [s EXCEPT !.pc = "done", !.write = NoWrite, !.content = {}, !.exc = exc,
              !.conn = IF s.conn = "open" THEN "closed" ELSE s.conn,
              !.status = h.status, !.detail = h.detail]

\* conn.rollback() returns, or raises (the connection is lost).
RollbackOutcomes == {"done", "failed"}

(* The with block of request r, in state s, ends by exception exc and the  *)
(* connection is open: `if conn: conn.rollback()`, `raise e`, the finally  *)
(* clause, the handler's except clause.  When the rollback raises, its     *)
(* exception is the one that leaves get_db_connection.                     *)
Fail(r, s, exc) ==
    /\ vehicles' = Rollback(vehicles, s.write)
    /\ \E rb \in RollbackOutcomes :
          req' = [req EXCEPT ![r] =
                    [Raise(s, IF rb = "failed" THEN "OperationalError" ELSE exc)
                        EXCEPT !.rollback = rb, !.delta = Diff(vehicles, vehicles')]]

\* conn = psycopg2.connect(DATABASE_URL)
Connect(r) ==
    /\ req[r].pc = "handler"
    /\ req' = [req EXCEPT ![r].pc = "conn", ![r].conn = "open",
                          ![r].opened = @ + 1]
    /\ UNCHANGED <<vehicles, vehicle_id_seq, sha, issued, created, deletedVins, calls>>

\* psycopg2.connect raises: conn is still None, nothing to roll back or close.
ConnectFail(r) ==
    /\ req[r].pc = "handler"
    /\ req' = [req EXCEPT ![r] = Raise(@, "OperationalError")]
    /\ UNCHANGED <<vehicles, vehicle_id_seq, sha, issued, created, deletedVins, calls>>

\* A statement fails (connection lost, server error).
StatementFail(r) ==
    /\ req[r].pc \in {"conn", "seq"}
    /\ Fail(r, req[r], "OperationalError")
    /\ UNCHANGED <<vehicle_id_seq, sha, issued, created, deletedVins, calls>>

\* get_vehicle: SELECT * FROM vehicles
SelectAll(r) ==
    /\ req[r].pc = "conn" /\ req[r].op = "list"
    /\ req' = [req EXCEPT ![r].pc = "exec",
                          ![r].fetched = DOMAIN vehicles,
                          ![r].content = {ListItem(vehicles[k]) : k \in DOMAIN vehicles},
                          ![r].snapDeleted = deletedVins]
    /\ UNCHANGED <<vehicles, vehicle_id_seq, sha, issued, created, deletedVins, calls>>

\* Mutant: the sequence is read without being advanced.
lastval(seq) == IF seq = 0 THEN 1 ELSE seq

\* nextval('vehicle_id_seq'): the value the sequence returns after seq.
nextval(seq) == seq + 1

\* create_vehicle: SELECT nextval('vehicle_id_seq').  The sequence advances
\* outside the transaction.  The digest of the new integer is fixed here.
NextVal(r) ==
    /\ req[r].pc = "conn" /\ req[r].op = "create"
    /\ vehicle_id_seq < MaxSeq
    /\ LET id == nextval(vehicle_id_seq) IN
       /\ vehicle_id_seq' = id
       /\ issued' = Append(issued, id)
       /\ \E seed \in SeedsFor(id) :
             sha' = IF id \in DOMAIN sha THEN sha
                    ELSE [n \in DOMAIN sha \cup {id} |-> IF n = id THEN seed ELSE sha[n]]
       /\ req' = [req EXCEPT ![r].pc = "seq", ![r].vehicle_id = id,
                             ![r].allocs = @ \cup {id}]
    /\ UNCHANGED <<vehicles, created, deletedVins, calls>>

\* create_vehicle: vin = generate_vin(vehicle_id); INSERT ... RETURNING ...
Insert(r) ==
    /\ req[r].pc = "seq"
    /\ LET id == req[r].vehicle_id
           vin == generate_vin(id)
           new_vehicle == InsertedRow(vin, Validated(req[r].body))
           seen == [req[r] EXCEPT
                      !.hit = {k \in DOMAIN vehicles : VinOf(vehicles[k]) = vin}]
       IN /\ ~VinContended(r, vin)
          /\ IF UniqueViolation(vehicles, vin)
             THEN Fail(r, seen, "UniqueViolation")
             ELSE /\ req' = [req EXCEPT ![r] =
                        [seen EXCEPT !.pc = "exec",
                                     !.write = [kind |-> "insert",
                                                rows |-> [k \in {id} |-> new_vehicle]],
                                     !.fetched = {id},
                                     !.content = {CreateResponse(new_vehicle)}]]
                  /\ UNCHANGED vehicles
    /\ UNCHANGED <<vehicle_id_seq, sha, issued, created, deletedVins, calls>>

\* The history of create responses after a statement wrote these rows.
Touch(keys) ==
    [v \in DOMAIN created |->
        IF \E k \in keys : VinOf(vehicles[k]) = v THEN {} ELSE created[v]]

\* get_vehicle_by_vin: SELECT ... WHERE LOWER(vin) = LOWER(%s); fetchone
SelectOne(r) ==
    /\ req[r].pc = "conn" /\ req[r].op = "get"
    /\ LET matches == WhereLower(vehicles, req[r].vin)
           seen == [req[r] EXCEPT
                      !.hit = {k \in DOMAIN vehicles : EqIgnoreCase(VinOf(vehicles[k]), req[r].vin)}]
       IN IF matches = {}
          THEN Fail(r, seen, "HTTPException404")
          ELSE /\ \E k \in matches :
                    req' = [req EXCEPT ![r] =
                        [seen EXCEPT !.pc = "exec", !.fetched = {k},
                                     !.content = {GetResponse(vehicles[k])}]]
               /\ UNCHANGED vehicles
    /\ UNCHANGED <<vehicle_id_seq, sha, issued, created, deletedVins, calls>>

\* update_vehicle: UPDATE ... SET <seven columns> WHERE LOWER(vin) = LOWER(%s)
\* RETURNING ...; fetchone
Update(r) ==
    /\ req[r].pc = "conn" /\ req[r].op = "update"
    /\ LET matches == WhereLower(vehicles, req[r].vin)
           seen == [req[r] EXCEPT
                      !.hit = {k \in DOMAIN vehicles : EqIgnoreCase(VinOf(vehicles[k]), req[r].vin)}]
           rows == [k \in matches |->
                      UpdatedRow(vehicles[k], Validated(req[r].body), req[r].vin)]
       IN /\ ~RowLocked(r, matches)
          /\ IF matches = {}
             THEN Fail(r, seen, "HTTPException404")
             ELSE /\ \E k \in matches :
                       req' = [req EXCEPT ![r] =
                           [seen EXCEPT !.pc = "exec", !.fetched = {k},
                                        !.write = [kind |-> "update", rows |-> rows],
                                        !.content = {UpdateResponse(rows[k])}]]
                  /\ UNCHANGED vehicles
          /\ created' = Touch(matches)
    /\ UNCHANGED <<vehicle_id_seq, sha, issued, deletedVins, calls>>

\* delete_vehicle: DELETE ... WHERE LOWER(vin) = LOWER(%s) RETURNING vin; fetchone
Delete(r) ==
    /\ req[r].pc = "conn" /\ req[r].op = "delete"
    /\ LET matches == WhereLower(vehicles, req[r].vin)
           seen == [req[r] EXCEPT
                      !.hit = {k \in DOMAIN vehicles : EqIgnoreCase(VinOf(vehicles[k]), req[r].vin)}]
       IN /\ ~RowLocked(r, matches)
          /\ IF matches = {}
             THEN Fail(r, seen, "HTTPException404")
             ELSE /\ \E k \in matches :
                       req' = [req EXCEPT ![r] =
                           [seen EXCEPT !.pc = "exec", !.fetched = {k},
                                        !.write = [kind |-> "delete",
                                                   rows |-> [j \in matches |-> vehicles[j]]]]]
                  /\ UNCHANGED vehicles
          /\ created' = Touch(matches)
    /\ UNCHANGED <<vehicle_id_seq, sha, issued, deletedVins, calls>>

\* get_db_connection when the with block ends normally: conn.commit(), then
\* conn.close(); the handler's return value becomes the response.
Commit(r) ==
    /\ req[r].pc = "exec"
    /\ LET w == req[r].write
           vins == {VinOf(w.rows[k]) : k \in DOMAIN w.rows}
       IN /\ vehicles' = ApplyWrite(vehicles, w)
          /\ req' = [req EXCEPT ![r].pc = "done", ![r].write = NoWrite,
                                ![r].conn = "closed",
                                ![r].status = SuccessStatus(req[r].op),
                                ![r].delta = Diff(vehicles, vehicles')]
          /\ created' = IF w.kind = "insert"
                        THEN [v \in DOMAIN created |->
                                 IF v \in vins
                                 THEN {[key |-> k, rec |-> c] : k \in DOMAIN w.rows,
                                                               c \in req[r].content}
                                 ELSE created[v]]
                        ELSE created
          /\ deletedVins' = CASE w.kind = "insert" -> deletedVins \ vins
                              [] w.kind = "delete" -> deletedVins \cup vins
                              [] OTHER -> deletedVins
    /\ UNCHANGED <<vehicle_id_seq, sha, issued, calls>>

\* conn.commit() raises: the except clause rolls back, the connection is closed.
CommitFail(r) ==
    /\ req[r].pc = "exec"
    /\ Fail(r, req[r], "OperationalError")
    /\ UNCHANGED <<vehicle_id_seq, sha, issued, created, deletedVins, calls>>

\* The response is sent; the slot is free for the next request.
Reply(r) ==
    /\ req[r].pc = "done"
    /\ req' = [req EXCEPT ![r] = Idle]
    /\ UNCHANGED <<vehicles, vehicle_id_seq, sha, issued, created, deletedVins, calls>>

IdsFor(op) == IF op \in {"get", "update", "delete"} THEN PathIds ELSE {<< >>}

BodiesFor(op) ==
    CASE op = "create" -> {Honda} \cup Rejected
      [] op = "update" -> {Toyota} \cup Rejected
      [] OTHER -> {NoBody}

\* The steps of the request in slot r.
Step(r) ==
    \/ \E op \in Ops : \E vin \in IdsFor(op) : \E body \in BodiesFor(op) :
          Receive(r, op, vin, body)
    \/ Connect(r)
    \/ ConnectFail(r)
    \/ StatementFail(r)
    \/ SelectAll(r)
    \/ NextVal(r)
    \/ Insert(r)
    \/ SelectOne(r)
    \/ Update(r)
    \/ Delete(r)
    \/ Commit(r)
    \/ CommitFail(r)
    \/ Reply(r)

Next == \E r \in Slots : Step(r)

Spec == Init /\ [][Next]_vars

----------------------------------------------------------------------------
(* generate_vin called directly, as TestVINGeneration does.                *)

\* vin = generate_vin(n).  The digest of n is fixed when it is first
\* computed; the call is recorded with the sequence counter it ran under.
Generate(n) ==
    /\ Len(calls) < MaxCalls
    /\ \E seed \in SeedsFor(n) :
          sha' = IF n \in DOMAIN sha THEN sha
                 ELSE [k \in DOMAIN sha \cup {n} |-> IF k = n THEN seed ELSE sha[k]]
    /\ UNCHANGED <<vehicles, vehicle_id_seq, req, issued, created, deletedVins>>
    /\ calls' = Append(calls, [n |-> n, vin |-> generate_vin(n)', seq |-> vehicle_id_seq])

(* The generator alone, on any digest: one integer whose digest starts     *)
(* with any byte, so that every byte value occurs at every position.       *)
InitGen ==
    /\ vehicles = << >>
    /\ vehicle_id_seq = 0
    /\ sha \in {[k \in {n} |-> b] : n \in 1..MaxSeq, b \in Bytes}
    /\ req = [r \in Slots |-> Idle]
    /\ issued = << >>
    /\ created = [v \in PossibleVins |-> {}]
    /\ deletedVins = {}
    /\ calls = << >>

NextGen == \E n \in DOMAIN sha : Generate(n)

SpecGen == InitGen /\ [][NextGen]_vars

(* The generator called between the steps of the service: one request at   *)
(* a time and direct calls in any order.                                   *)
NextCalls ==
    \/ \E n \in 1..MaxSeq : Generate(n)
    \/ Step(1)

SpecCalls == Init /\ [][NextCalls]_vars

----------------------------------------------------------------------------
(* A storage engine that stops answering.                                  *)

(* The engine never answers the call the request is about to make          *)
(* (psycopg2.connect, cursor.execute, conn.commit): the call blocks.  The  *)
(* code passes no connect_timeout, sets no statement_timeout and has no    *)
(* cancellation, so no step of the request follows.                        *)
NoAnswer(r) ==
    /\ req[r].pc \in {"handler", "conn", "seq", "exec"}
    /\ req' = [req EXCEPT ![r].pc = "blocked"]
    /\ UNCHANGED <<vehicles, vehicle_id_seq, sha, issued, created, deletedVins, calls>>

\* One request at a time, against an engine that may stop answering.
NextLive ==
    \/ Step(1)
    \/ NoAnswer(1)

\* The server runs a handler it has called as long as it has a step to
\* take: a request that can move does move.
SpecLive == Init /\ [][NextLive]_vars /\ WF_vars(NextLive)

----------------------------------------------------------------------------
(* Properties.                                                             *)

\* The request of slot r has its response.
Done(r) == req[r].pc = "done"

\* The request of slot r met a failure of the storage engine.
StorageFailed(r) == req[r].exc = "OperationalError"

\* The request of slot r addresses one record and passed validation.
ByIdentifier(r) ==
    /\ Done(r)
    /\ req[r].op \in {"get", "update", "delete"}
    /\ req[r].status \notin {400, 422}

\* A decoded body violates the Input Schema.
SchemaViolated(body) ==
    body.json /\ \E i \in DOMAIN Fields : FieldError(Fields[i], body.obj) # ""

\* The record a response holds for an identifier and a validated payload.
ExpectedRecord(vin, p) ==
    [ vin |-> vin, manufacturer_name |-> p.manufacturer_name,
      description |-> p.description, horse_power |-> p.horse_power,
      model_name |-> p.model_name, model_year |-> p.model_year,
      purchase_price |-> p.purchase_price, fuel_type |-> p.fuel_type ]

\* The row the table holds for an identifier and a validated payload.
ExpectedRow(vin, p) ==
    << vin, p.manufacturer_name, p.description, p.horse_power, p.model_name,
       p.model_year, p.purchase_price, p.fuel_type >>

(* C1: a GET, a PUT with a valid body or a DELETE whose path identifier    *)
(* matched no stored record ignoring letter case, and that met no storage  *)
(* failure, is answered 404 with detail 'Vehicle not found'.               *)
C1_NotFoundIs404 ==
    \A r \in Slots :
        (ByIdentifier(r) /\ ~StorageFailed(r) /\ req[r].hit = {})
            => (req[r].status = 404 /\ req[r].detail = "Vehicle not found")

(* C2: a POST or PUT body that is not valid JSON is answered 400, a body   *)
(* that is valid JSON but violates the Input Schema is answered 422, and   *)
(* a request answered 400 or 422 had a body of the matching kind.          *)
C2_MalformedOrInvalid ==
    \A r \in Slots :
        (Done(r) /\ req[r].op \in {"create", "update"}) =>
            /\ ~req[r].body.json => req[r].status = 400
            /\ SchemaViolated(req[r].body) => req[r].status = 422
            /\ req[r].status = 400 => ~req[r].body.json
            /\ req[r].status = 422 => SchemaViolated(req[r].body)

\* A PUT with truncated JSON has been answered 400.
C2_Witness ==
    \E r \in Slots :
        Done(r) /\ req[r].op = "update" /\ ~req[r].body.json /\ req[r].status = 400

(* C3: a request answered 400 or 422 opened no connection, obtained no     *)
(* sequence value and wrote nothing; a PUT whose body violates the schema  *)
(* is answered 422 whether or not its path identifier matches a record.    *)
C3_RejectedTouchesNothing ==
    \A r \in Slots :
        /\ (Done(r) /\ req[r].status \in {400, 422}) =>
              /\ req[r].opened = 0 /\ req[r].conn = "none"
              /\ req[r].allocs = {} /\ req[r].vehicle_id = 0
              /\ req[r].write = NoWrite /\ req[r].delta = NoDelta
        /\ (Done(r) /\ req[r].op = "update" /\ SchemaViolated(req[r].body)) =>
              req[r].status = 422

\* A PUT with an invalid body, addressed to a stored record, has been answered 422.
C3_Witness ==
    \E r \in Slots :
        /\ Done(r) /\ req[r].op = "update" /\ req[r].status = 422
        /\ \E k \in DOMAIN vehicles : EqIgnoreCase(VinOf(vehicles[k]), req[r].vin)

(* C4: a POST answered 201 obtained exactly one sequence value v, which    *)
(* the sequence returned once; its commit added exactly the row            *)
(* (generate_vin(v), payload) and changed nothing else; the response is    *)
(* that record, with description null when the body omits it.              *)
C4_CreateInsertsOne ==
    \A r \in Slots :
        (Done(r) /\ req[r].op = "create" /\ req[r].status = 201) =>
            LET v == req[r].vehicle_id
                p == Validated(req[r].body)
            IN /\ req[r].allocs = {v}
               /\ Cardinality({i \in DOMAIN issued : issued[i] = v}) = 1
               /\ req[r].delta.added = [k \in {v} |-> ExpectedRow(generate_vin(v), p)]
               /\ req[r].delta.removed = {}
               /\ req[r].delta.changed = << >>
               /\ req[r].content = {ExpectedRecord(generate_vin(v), p)}
               /\ "description" \notin DOMAIN req[r].body.obj =>
                     \A c \in req[r].content : c.description = << >>

\* A POST whose body has no description has been answered 201.
C4_Witness ==
    \E r \in Slots :
        /\ Done(r) /\ req[r].op = "create" /\ req[r].status = 201
        /\ "description" \notin DOMAIN req[r].body.obj

(* C5: a GET by the identifier V a create returned, received after that    *)
(* response and answered with no update or delete of V executed since the  *)
(* create and no storage failure, is answered 200 with the record the      *)
(* create returned.                                                        *)
C5_RoundTrip ==
    \A r \in Slots :
        ( /\ Done(r) /\ req[r].op = "get" /\ ~StorageFailed(r)
          /\ req[r].snapCreated # {}
          /\ \A c \in req[r].snapCreated : c.rec.vin = req[r].vin
          /\ Standing(req[r].vin) = req[r].snapCreated )
        => /\ req[r].status = 200
           /\ req[r].content = {c.rec : c \in req[r].snapCreated}

\* A GET of a created record, untouched since, has been answered.
C5_Witness ==
    \E r \in Slots :
        /\ Done(r) /\ req[r].op = "get" /\ ~StorageFailed(r)
        /\ req[r].snapCreated # {}
        /\ \A c \in req[r].snapCreated : c.rec.vin = req[r].vin
        /\ Standing(req[r].vin) = req[r].snapCreated

(* C6: a GET, PUT (valid body) or DELETE whose path identifier equalled a  *)
(* stored identifier ignoring letter case when its statement ran, and      *)
(* that met no storage failure, succeeds, acts on that record and on no    *)
(* other, and answers with the identifier as stored.                       *)
C6_CaseInsensitive ==
    \A r \in Slots :
        (ByIdentifier(r) /\ ~StorageFailed(r) /\ req[r].hit # {}) =>
            /\ req[r].status = SuccessStatus(req[r].op)
            /\ req[r].fetched # {} /\ req[r].fetched \subseteq req[r].hit
            /\ \A c \in req[r].content :
                  \E k \in req[r].fetched : c.vin = generate_vin(k)
            /\ req[r].op \in {"get", "update"} => req[r].content # {}
            /\ req[r].op = "update" =>
                  /\ DOMAIN req[r].delta.changed \subseteq req[r].hit
                  /\ req[r].delta.removed = {} /\ req[r].delta.added = << >>
            /\ req[r].op = "delete" => req[r].delta.removed = req[r].hit

\* A PUT addressed in lower case has been answered with the stored casing.
C6_Witness ==
    \E r \in Slots :
        /\ ByIdentifier(r) /\ req[r].op = "update" /\ req[r].status = 200
        /\ req[r].vin = LOWER(req[r].vin)
        /\ \E c \in req[r].content : c.vin # req[r].vin /\ c.vin = UPPER(req[r].vin)

(* C7: a DELETE answered 204 has an empty body and its commit removed the  *)
(* rows its path identifier matched; an identifier deleted so and not      *)
(* stored by a create since is held by no row, and no list whose SELECT    *)
(* ran after the 204 contains it.                                          *)
C7_DeletedStaysGone ==
    /\ \A v \in deletedVins : \A k \in DOMAIN vehicles : VinOf(vehicles[k]) # v
    /\ \A r \in Slots :
          /\ (Done(r) /\ req[r].op = "delete" /\ req[r].status = 204) =>
                /\ req[r].content = {}
                /\ req[r].hit # {} /\ req[r].delta.removed = req[r].hit
          /\ (req[r].op = "list" /\ req[r].pc \in {"exec", "done"}) =>
                \A c \in req[r].content : c.vin \notin req[r].snapDeleted

\* A list has been answered 200 after a DELETE was answered 204.
C7_Witness ==
    \E r \in Slots :
        Done(r) /\ req[r].op = "list" /\ req[r].status = 200 /\ req[r].snapDeleted # {}

(* C8: every stored row holds the identifier derived from the sequence     *)
(* value of the create that inserted it; a PUT answered 200 wrote the      *)
(* payload into the seven data columns, left vin as stored, and answers    *)
(* with that row.                                                          *)
C8_IdentifierImmutable ==
    /\ \A k \in DOMAIN vehicles : VinOf(vehicles[k]) = generate_vin(k)
    /\ \A r \in Slots :
          (Done(r) /\ req[r].op = "update" /\ req[r].status = 200) =>
              LET p == Validated(req[r].body) IN
              /\ \A k \in DOMAIN req[r].delta.changed :
                    req[r].delta.changed[k] = ExpectedRow(generate_vin(k), p)
              /\ \E k \in req[r].fetched :
                    req[r].content = {ExpectedRecord(generate_vin(k), p)}

\* A PUT addressed in another letter case has changed a record.
C8_Witness ==
    \E r \in Slots :
        /\ Done(r) /\ req[r].op = "update" /\ req[r].status = 200
        /\ req[r].delta.changed # << >>
        /\ \A c \in req[r].content : c.vin # req[r].vin

(* C9: no two stored rows hold the same identifier.                        *)
C9_UniqueIdentifier ==
    \A j, k \in DOMAIN vehicles : j # k => VinOf(vehicles[j]) # VinOf(vehicles[k])

\* Two creates ran together, derived one identifier, and one was refused.
C9_Witness ==
    \E r, q \in Slots :
        /\ r # q /\ Done(r) /\ Done(q)
        /\ req[r].op = "create" /\ req[r].exc = "UniqueViolation"
        /\ req[q].op = "create" /\ req[q].status = 201
        /\ generate_vin(req[r].vehicle_id) = generate_vin(req[q].vehicle_id)

(* C10: the sequence never returns a value twice: the values returned so   *)
(* far are pairwise distinct, also those of creates that failed, and two   *)
(* creates in flight hold different values.                                *)
C10_SequenceNeverRepeats ==
    /\ \A i, j \in DOMAIN issued : i # j => issued[i] # issued[j]
    /\ \A r, q \in Slots :
          (r # q /\ req[r].vehicle_id # 0 /\ req[q].vehicle_id # 0) =>
              req[r].vehicle_id # req[q].vehicle_id

\* A create failed after it obtained a value and another create holds a later one.
C10_Witness ==
    \E r, q \in Slots :
        /\ r # q /\ Done(r) /\ req[r].op = "create" /\ req[r].status = 500
        /\ req[r].vehicle_id # 0
        /\ req[q].pc = "seq" /\ req[q].vehicle_id > req[r].vehicle_id

\* The details the five handlers give a 500 response.
GenericMessages ==
    { "Failed to retrieve vehicles from database", "Failed to create new vehicle",
      "Failed to retrieve vehicle", "Failed to update vehicle",
      "Failed to delete vehicle" }

\* The failures of the storage engine: a failed connect, statement, commit
\* or rollback, and a violated constraint.
StorageErrors == {"OperationalError", "UniqueViolation"}

(* C11: a request of any of the five operations that met a storage failure *)
(* (connect, statement, constraint, commit or rollback) is answered 500,   *)
(* with one of the five fixed details, no record, no error list and        *)
(* nothing of the underlying error.                                        *)
C11_StorageFailureIs500 ==
    \A r \in Slots :
        (Done(r) /\ req[r].exc \in StorageErrors) =>
            /\ req[r].status = 500
            /\ req[r].detail \in GenericMessages
            /\ req[r].detail # req[r].exc
            /\ req[r].content = {} /\ req[r].errors = << >>

\* A PUT that matched a record and whose commit failed has been answered.
C11_Witness ==
    \E r \in Slots :
        /\ Done(r) /\ req[r].op = "update" /\ req[r].exc = "OperationalError"
        /\ req[r].hit # {} /\ req[r].status = 500

(* C12: the table changes only in the step that commits a request, by the  *)
(* whole write of that request, which is then answered with its success    *)
(* status; a request that ends by an exception leaves the table as it is,  *)
(* keeps no write and, if it had a connection, had rollback called; a GET  *)
(* or a list reads committed rows only.                                    *)
C12_Transactional ==
    [][ /\ vehicles' # vehicles =>
              \E r \in Slots :
                  /\ req[r].pc = "exec" /\ req'[r].pc = "done"
                  /\ req'[r].status = SuccessStatus(req[r].op)
                  /\ vehicles' = ApplyWrite(vehicles, req[r].write)
        /\ \A r \in Slots :
              (req[r].pc # "done" /\ req'[r].pc = "done" /\ req'[r].status = 500) =>
                  /\ vehicles' = vehicles
                  /\ req'[r].write = NoWrite /\ req'[r].delta = NoDelta
                  /\ req[r].conn = "open" => req'[r].rollback # "none"
        /\ \A r \in Slots :
              (req[r].pc = "conn" /\ req'[r].pc = "exec" /\ req[r].op \in {"list", "get"}) =>
                  req'[r].content \subseteq {ListItem(vehicles[k]) : k \in DOMAIN vehicles}
      ]_vars

\* A create whose INSERT ran and whose commit failed has been answered; its
\* row is not in the table.
C12_Witness ==
    \E r \in Slots :
        /\ Done(r) /\ req[r].op = "create" /\ req[r].status = 500
        /\ req[r].fetched # {} /\ req[r].vehicle_id \notin DOMAIN vehicles

(* C13: a request opens at most one connection; it holds an open           *)
(* connection exactly between its connect and the end of its with block;   *)
(* when its response is produced the connection it opened is closed,       *)
(* whatever the exit path; an idle slot holds none.                        *)
C13_OneConnectionClosed ==
    \A r \in Slots :
        /\ req[r].opened <= 1
        /\ req[r].conn = "open" <=> req[r].pc \in {"conn", "seq", "exec"}
        /\ Done(r) => req[r].conn = (IF req[r].opened = 1 THEN "closed" ELSE "none")
        /\ req[r].pc = "idle" => (req[r].conn = "none" /\ req[r].opened = 0)

\* A request whose rollback raised has been answered, its connection closed.
C13_Witness ==
    \E r \in Slots :
        Done(r) /\ req[r].rollback = "failed" /\ req[r].conn = "closed"

(* C14: a create whose derived identifier was held by a stored row when    *)
(* its INSERT ran is answered 500 'Failed to create new vehicle', adds no  *)
(* row and changes none.                                                   *)
C14_CollisionFailsCreate ==
    \A r \in Slots :
        (Done(r) /\ req[r].op = "create" /\ req[r].hit # {}) =>
            /\ req[r].status = 500
            /\ req[r].detail = "Failed to create new vehicle"
            /\ req[r].content = {}
            /\ req[r].delta = NoDelta
            /\ req[r].vehicle_id \notin DOMAIN vehicles

\* A create that derived the identifier of a stored row has been answered
\* and that row is still stored.
C14_Witness ==
    \E r \in Slots :
        /\ Done(r) /\ req[r].op = "create" /\ req[r].hit # {}
        /\ req[r].hit \subseteq DOMAIN vehicles

\* The ten digits, in order.
Digits == <<"0","1","2","3","4","5","6","7","8","9">>

\* A letter other than I, O and Q.
NotIOQ(c) == c \notin {"I", "O", "Q"}

\* The alphabet as the specification words it: the digits, then the
\* uppercase letters other than I, O, Q.
Alphabet == Digits \o SelectSeq(UpperLetters, NotIOQ)

\* The symbols of that alphabet.
AllowedSymbols == {Alphabet[i] : i \in DOMAIN Alphabet}

(* C15: every identifier generate_vin returned, whatever the digest bytes, *)
(* has exactly 17 characters, each a digit or an uppercase letter other    *)
(* than I, O, Q.                                                           *)
C15_LengthAndAlphabet ==
    \A i \in DOMAIN calls :
        /\ Len(calls[i].vin) = 17
        /\ \A j \in DOMAIN calls[i].vin : calls[i].vin[j] \in AllowedSymbols

\* An identifier was generated from a digest whose first byte is 255.
C15_Witness ==
    \E i \in DOMAIN calls : hash_bytes(calls[i].n)[1] = 255

(* C16 as stated: the alphabet has 34 symbols and character j of the       *)
(* identifier is the symbol at index (byte j) mod 34.                      *)
C16_Mod34 ==
    \A i \in DOMAIN calls :
        LET b == hash_bytes(calls[i].n) IN
        /\ Len(Alphabet) = 34
        /\ \A j \in 1..17 :
              /\ (b[j] % 34) + 1 \in DOMAIN Alphabet
              /\ calls[i].vin[j] = Alphabet[(b[j] % 34) + 1]

(* C16 amended: the alphabet of the ten digits and the uppercase letters   *)
(* other than I, O, Q has 33 symbols, and the identifier is the 17         *)
(* symbols at index (byte j) mod 33, for the first 17 digest bytes in      *)
(* order.                                                                  *)
C16_Mod33 ==
    /\ Len(Alphabet) = 33
    /\ \A i \in DOMAIN calls :
          LET b == hash_bytes(calls[i].n) IN
          calls[i].vin = [j \in 1..17 |-> Alphabet[(b[j] % 33) + 1]]

\* An identifier was generated from a digest with a byte that mod 33 and
\* mod 34 send to different indices.
C16_Witness ==
    \E i \in DOMAIN calls :
        \E j \in 1..17 :
            hash_bytes(calls[i].n)[j] % 33 # hash_bytes(calls[i].n)[j] % 34

(* C19: two direct calls of generate_vin with the same integer returned    *)
(* the same identifier, whatever calls and requests ran between them, and  *)
(* the identifier of the row a create stored for that integer is that      *)
(* identifier too.                                                         *)
C19_Deterministic ==
    /\ \A i, j \in DOMAIN calls :
          calls[i].n = calls[j].n => calls[i].vin = calls[j].vin
    /\ \A i \in DOMAIN calls :
          calls[i].n \in DOMAIN vehicles =>
              VinOf(vehicles[calls[i].n]) = calls[i].vin

\* Two calls with the same integer, the sequence advanced between them and
\* a row stored for that integer.
C19_Witness ==
    \E i, j \in DOMAIN calls :
        /\ i < j /\ calls[i].n = calls[j].n /\ calls[i].seq < calls[j].seq
        /\ calls[i].n \in DOMAIN vehicles

(* C17: when a PUT commits, the row it matched holds exactly the payload   *)
(* and the identifier it had, and the response is that record; if the row  *)
(* held those values already the table is left as it was.  A second PUT    *)
(* of the same payload is that case: same table, same response.            *)
C17_IdempotentUpdate ==
    [][ \A r \in Slots :
          ( /\ req[r].pc = "exec" /\ req[r].op = "update"
            /\ req'[r].pc = "done" /\ req'[r].status = 200 ) =>
              LET p == Validated(req[r].body) IN
              \A k \in req[r].fetched :
                  /\ vehicles'[k] = ExpectedRow(VinOf(vehicles[k]), p)
                  /\ req'[r].content = {ExpectedRecord(VinOf(vehicles[k]), p)}
                  /\ vehicles[k] = ExpectedRow(VinOf(vehicles[k]), p) =>
                        vehicles' = vehicles
      ]_vars

\* A PUT of the values the record already held has been answered 200.
C17_Witness ==
    \E r \in Slots :
        /\ Done(r) /\ req[r].op = "update" /\ req[r].status = 200
        /\ req[r].hit # {} /\ req[r].delta = NoDelta
        /\ \A k \in req[r].fetched :
              k \in DOMAIN vehicles /\ req[r].content = {GetResponse(vehicles[k])}

(* C18: a response 422 carries one entry for every field of the payload    *)
(* that violates the Input Schema, in one list, and no other entry.        *)
C18_AllViolationsReported ==
    \A r \in Slots :
        (Done(r) /\ req[r].status = 422) =>
            /\ {req[r].errors[i].loc : i \in DOMAIN req[r].errors}
                  = {Fields[i].name : i \in {j \in DOMAIN Fields :
                                                FieldError(Fields[j], req[r].body.obj) # ""}}
            /\ \A i \in DOMAIN req[r].errors :
                  \E j \in DOMAIN Fields :
                      /\ Fields[j].name = req[r].errors[i].loc
                      /\ req[r].errors[i].type = FieldError(Fields[j], req[r].body.obj)

\* A payload with three offending fields has been answered 422 with three entries.
C18_Witness ==
    \E r \in Slots :
        /\ Done(r) /\ req[r].status = 422 /\ Len(req[r].errors) = 3
        /\ {req[r].errors[i].loc : i \in DOMAIN req[r].errors}
              = {"manufacturer_name", "model_name", "fuel_type"}

(* C20: every request received is eventually answered, also when the      *)
(* storage engine never answers one of its calls.                          *)
C20_EveryRequestAnswered ==
    \A r \in Slots : (req[r].pc # "idle") ~> Done(r)

\* The operations that write.
WriteOps == {"create", "update", "delete"}

(* C21: a create, update or delete gets its success status only in the     *)
(* step that commits its transaction: the table then holds the whole       *)
(* write, the record answered is a stored row (create, update) or the      *)
(* matched rows are gone (delete); when the commit fails the request is    *)
(* answered 500 and the table is as it was.                                *)
C21_SuccessAfterCommit ==
    [][ \A r \in Slots :
          /\ ( /\ req[r].op \in WriteOps
               /\ req[r].status # SuccessStatus(req[r].op)
               /\ req'[r].status = SuccessStatus(req[r].op) ) =>
                  /\ req[r].pc = "exec" /\ req[r].write # NoWrite
                  /\ vehicles' = ApplyWrite(vehicles, req[r].write)
                  /\ req'[r].write = NoWrite /\ req'[r].exc = ""
                  /\ req[r].op \in {"create", "update"} =>
                        /\ req'[r].content # {}
                        /\ \A c \in req'[r].content :
                              \E k \in DOMAIN vehicles' : GetResponse(vehicles'[k]) = c
                  /\ req[r].op = "delete" =>
                        /\ req'[r].content = {}
                        /\ req[r].hit \cap DOMAIN vehicles' = {}
          /\ ( /\ req[r].op \in WriteOps
               /\ req[r].pc = "exec" /\ req'[r].pc = "done" /\ req'[r].exc # "" ) =>
                  /\ req'[r].status = 500
                  /\ vehicles' = vehicles
      ]_vars

\* A DELETE has been answered 204 and the row it matched is gone, and a
\* create whose commit failed has been answered 500.
C21_Witness ==
    \E r, q \in Slots :
        /\ Done(r) /\ req[r].op = "delete" /\ req[r].status = 204
        /\ req[r].hit # {} /\ req[r].hit \cap DOMAIN vehicles = {}
        /\ Done(q) /\ req[q].op = "create" /\ req[q].status = 500
        /\ req[q].fetched # {} /\ req[q].exc = "OperationalError"

(* C22: no two stored rows hold identifiers equal ignoring letter case;    *)
(* every stored identifier is made of digits and uppercase letters other   *)
(* than I, O, Q; a path identifier matches at most one row, and a get,     *)
(* update or delete matched and returned at most one.                      *)
C22_AtMostOneMatch ==
    /\ \A j, k \in DOMAIN vehicles :
          j # k => ~EqIgnoreCase(VinOf(vehicles[j]), VinOf(vehicles[k]))
    /\ \A k \in DOMAIN vehicles :
          \A i \in DOMAIN VinOf(vehicles[k]) : VinOf(vehicles[k])[i] \in AllowedSymbols
    /\ \A v \in PathIds : Cardinality(WhereLower(vehicles, v)) <= 1
    /\ \A r \in Slots :
          req[r].op \in {"get", "update", "delete"} =>
              /\ Cardinality(req[r].hit) <= 1
              /\ Cardinality(req[r].fetched) <= 1
              /\ Cardinality(DOMAIN req[r].write.rows) <= 1

\* Two rows are stored and a request by identifier matched one of them.
C22_Witness ==
    \E r \in Slots :
        /\ Done(r) /\ req[r].op \in {"get", "update", "delete"}
        /\ Cardinality(req[r].hit) = 1 /\ req[r].hit \subseteq DOMAIN vehicles
        /\ Cardinality(DOMAIN vehicles) = 2

(* C23: no step of a PUT or DELETE changes the sequence counter, adds a    *)
(* row, or changes or removes a row other than those its path identifier   *)
(* matched; a PUT or DELETE that matched no row leaves the table as it is. *)
C23_FrameOfUpdateAndDelete ==
    [][ \A r \in Slots :
          (req'[r] # req[r] /\ req[r].op \in {"update", "delete"}) =>
              /\ vehicle_id_seq' = vehicle_id_seq
              /\ DOMAIN vehicles' \subseteq DOMAIN vehicles
              /\ \A k \in DOMAIN vehicles \ req[r].hit :
                    k \in DOMAIN vehicles' /\ vehicles'[k] = vehicles[k]
              /\ req[r].hit = {} => vehicles' = vehicles
      ]_vars

\* A PUT has changed the row it matched while another row is stored.
C23_Witness ==
    \E r \in Slots :
        /\ Done(r) /\ req[r].op = "update" /\ req[r].status = 200
        /\ req[r].delta.changed # << >>
        /\ DOMAIN vehicles \ req[r].hit # {}

====
